---- MODULE Spec2Model ----
(***************************************************************************)
(* Sender-side flow control strategies of the Aeron C media driver:        *)
(*   aeron-driver/src/main/c/aeron_flow_control.c      (max, selector,     *)
(*                                                      fc options parser) *)
(*   aeron-driver/src/main/c/aeron_min_flow_control.c  (min, preferred)    *)
(*                                                                         *)
(* Arrays are 0-based in the C source and 1-based here: C index i is       *)
(* index i + 1 of the sequence.  Positions, windows and times are int64 in *)
(* the source; the model draws them from small ranges far from the int64   *)
(* limits, so no sum below wraps.                                          *)
(***************************************************************************)
EXTENDS Integers, Sequences, FiniteSets, TLC

VARIABLES
    kind,                 \* which supplier built the strategy: "max", "min", "preferred";
                          \* "none" before the supplier ran, "failed" when it returned -1
    receivers,            \* receivers.array[0 .. receivers.length - 1]
    capacity,             \* receivers.capacity
    receiver_timeout_ns,  \* aeron_min_flow_control_strategy_state_t.receiver_timeout_ns
    receiver_tag,         \* aeron_preferred_flow_control_strategy_state_t.receiver_tag
    call,                 \* the last strategy call: its arguments, its result, the table before it
    options,              \* the fc value handed to the options parser
    parsed,               \* the parser's return code and the options record it filled in
    env,                  \* the two receiver timeout environment variables
    statics,              \* the file-scope variables of aeron_min_flow_control.c
    supplied,             \* the last call of the selecting supplier: what it returned
    history,              \* per receiver_id, the SMs accepted from it (not kept by the code)
    threads,              \* the threads that construct strategies at the same time
    init_once,            \* the two AERON_INIT_ONCE controls as aeron_thread_once sees them
    emptied,              \* on_idle evicted the last receivers, and no SM was accepted
                          \* since (not kept by the code)
    driver,               \* the sender limit the driver holds between the calls, and
                          \* what the calls so far did to the set of tracked receivers
    sources               \* per receiver_id, the address its last accepted SM came from
                          \* (not kept by the code)

vars == <<kind, receivers, capacity, receiver_timeout_ns, receiver_tag, call, options,
          parsed, env, statics, supplied, history, threads, init_once, emptied,
          driver, sources>>

(***************************************************************************)
(* Bounds of the model.                                                    *)
(***************************************************************************)
MaxReceiverId == 2

ReceiverIds == 1..MaxReceiverId
\* One receiver more than a table of the initial capacity 2 holds, so that a
\* full table meets an SM of a receiver it does not track.
GrowthReceiverIds == 1..(MaxReceiverId + 1)
\* Send limits below every window edge the SMs can report, and at the highest one.
SndLmts == {0, 3}
\* Two positions and two windows: an SM can report an older position or a
\* smaller window than the one before it.
Positions == {0, 1}
Windows == {1, 2}
\* The receiver timeout of the strategies built by Init, the times at which SMs
\* arrive, and the times of the idle ticks, which go on after the last SM.
ReceiverTimeout == 1
SmTimes == {0, 1}
IdleTimes == 0..(ReceiverTimeout + 1)

\* INT64_MAX of <stdint.h>: the start value of the min reductions. The model
\* uses the largest integer that TLC holds; every modelled position is below it.
INT64_MAX == 2147483647

\* The tag the preferred strategy of Init is configured with, and another one.
ConfiguredTag == 42
OtherTag == 7

\* What aeron_udp_protocol_sm_receiver_tag reports of an SM: whether the
\* optional tag field is there, and the value of the local sm_receiver_tag,
\* which is not initialised when the field is absent and may hold any value.
SmTags ==
    {[was_present |-> TRUE, tag |-> ConfiguredTag],
     [was_present |-> TRUE, tag |-> OtherTag],
     [was_present |-> FALSE, tag |-> ConfiguredTag]}
NoTag == [was_present |-> FALSE, tag |-> OtherTag]

(***************************************************************************)
(* aeron_min_flow_control.c: the receiver table and the shared routines.   *)
(***************************************************************************)

\* aeron_min_flow_control_strategy_receiver_t, as written by lines 132-135.
NewReceiver(position, window_length, receiver_id, now_ns) ==
    [last_position |-> position,
     last_position_plus_window |-> position + window_length,
     time_of_last_status_message |-> now_ns,
     receiver_id |-> receiver_id]

\* UpdateReceiver that stores the position of the SM whatever the stored one.
UpdateReceiverOverwrite(receiver, position, window_length, now_ns) ==
    [receiver EXCEPT
        !.last_position = position,
        !.last_position_plus_window = position + window_length,
        !.time_of_last_status_message = now_ns]

\* UpdateReceiver that keeps the larger window edge and the later time.
UpdateReceiverKeepsLatest(receiver, position, window_length, now_ns) ==
    [receiver EXCEPT
        !.last_position = IF position > receiver.last_position
                          THEN position ELSE receiver.last_position,
        !.last_position_plus_window =
            IF position + window_length > receiver.last_position_plus_window
            THEN position + window_length ELSE receiver.last_position_plus_window,
        !.time_of_last_status_message =
            IF now_ns > receiver.time_of_last_status_message
            THEN now_ns ELSE receiver.time_of_last_status_message]

\* Lines 111-113: the update of the record whose receiver_id matches.
UpdateReceiver(receiver, position, window_length, now_ns) ==
    [receiver EXCEPT
        !.last_position = IF position > receiver.last_position
                          THEN position ELSE receiver.last_position,
        !.last_position_plus_window = position + window_length,
        !.time_of_last_status_message = now_ns]

\* MinLimit with the comparison turned round.
MinLimitReversed(last_position_plus_window, min_position) ==
    IF last_position_plus_window > min_position
    THEN last_position_plus_window ELSE min_position

\* Lines 85-86 and 117-118: one step of the running minimum.
MinLimit(last_position_plus_window, min_position) ==
    IF last_position_plus_window < min_position
    THEN last_position_plus_window ELSE min_position

\* IsTimedOut that also drops a receiver exactly at the timeout.
IsTimedOutAtBoundary(receiver, timeout_ns, now_ns) ==
    (receiver.time_of_last_status_message + timeout_ns) - now_ns <= 0

\* Line 73: the staleness test of on_idle.
IsTimedOut(receiver, timeout_ns, now_ns) ==
    (receiver.time_of_last_status_message + timeout_ns) - now_ns < 0

\* aeron_array_fast_unordered_remove (util/aeron_arrayutil.h): the element at
\* last_index is copied over the element at index.
FastUnorderedRemove(array, index, last_index) ==
    [array EXCEPT ![index] = array[last_index]]

\* IdleLoop that walks the table upwards, from the first record on: after a
\* removal it goes on behind the record that was copied into the gap.
RECURSIVE IdleLoopForward(_, _, _, _, _, _, _)
IdleLoopForward(array, length, last_index, i, min_limit_position, timeout_ns, now_ns) ==
    LET index == Len(array) - i + 1
    IN IF i < 1 \/ index > length
       THEN [array |-> SubSeq(array, 1, length), min_limit_position |-> min_limit_position]
       ELSE IF IsTimedOut(array[index], timeout_ns, now_ns)
            THEN IdleLoopForward(FastUnorderedRemove(array, index, last_index), length - 1,
                                 last_index - 1, i - 1, min_limit_position, timeout_ns,
                                 now_ns)
            ELSE IdleLoopForward(array, length, last_index, i - 1,
                                 MinLimit(array[index].last_position_plus_window,
                                          min_limit_position),
                                 timeout_ns, now_ns)

\* Lines 69-88: the loop of on_idle, from C index i - 1 down to 0. array keeps
\* its physical length; length is receivers.length.
RECURSIVE IdleLoop(_, _, _, _, _, _, _)
IdleLoop(array, length, last_index, i, min_limit_position, timeout_ns, now_ns) ==
    IF i < 1
    THEN [array |-> SubSeq(array, 1, length), min_limit_position |-> min_limit_position]
    ELSE IF IsTimedOut(array[i], timeout_ns, now_ns)
         THEN IdleLoop(FastUnorderedRemove(array, i, last_index), length - 1,
                       last_index - 1, i - 1, min_limit_position, timeout_ns, now_ns)
         ELSE IdleLoop(array, length, last_index, i - 1,
                       MinLimit(array[i].last_position_plus_window, min_limit_position),
                       timeout_ns, now_ns)

\* on_idle that clamps its result from below with snd_lmt, as on_sm does.
MinOnIdleResultClamped(array, timeout_ns, now_ns, snd_lmt) ==
    LET r == IdleLoop(array, Len(array), Len(array), Len(array), INT64_MAX, timeout_ns, now_ns)
    IN [receivers |-> r.array,
        ret |-> IF Len(r.array) > 0 /\ r.min_limit_position > snd_lmt
                THEN r.min_limit_position ELSE snd_lmt]

\* on_idle that keeps the table as it is when every record is stale.
MinOnIdleResultKeepsLast(array, timeout_ns, now_ns, snd_lmt) ==
    LET r == IdleLoop(array, Len(array), Len(array), Len(array), INT64_MAX, timeout_ns, now_ns)
    IN IF Len(array) > 0 /\ Len(r.array) = 0
       THEN [receivers |-> array, ret |-> snd_lmt]
       ELSE [receivers |-> r.array,
             ret |-> IF Len(r.array) > 0 THEN r.min_limit_position ELSE snd_lmt]

\* on_idle that takes the minimum before it tests the timeout, so that the
\* records it evicts count as well.
MinOnIdleResultCountsEvicted(array, timeout_ns, now_ns, snd_lmt) ==
    LET r == IdleLoop(array, Len(array), Len(array), Len(array), INT64_MAX, timeout_ns, now_ns)
        all == IdleLoop(array, Len(array), Len(array), Len(array), INT64_MAX, now_ns, now_ns)
    IN [receivers |-> r.array,
        ret |-> IF Len(r.array) > 0 THEN all.min_limit_position ELSE snd_lmt]

\* aeron_min_flow_control_strategy_on_idle, lines 59-91.
MinOnIdleResult(array, timeout_ns, now_ns, snd_lmt) ==
    LET r == IdleLoop(array, Len(array), Len(array), Len(array), INT64_MAX, timeout_ns, now_ns)
    IN [receivers |-> r.array,
        ret |-> IF Len(r.array) > 0 THEN r.min_limit_position ELSE snd_lmt]

\* ScanReceivers that updates the matching record for any SM.
RECURSIVE ScanReceiversAnySm(_, _, _, _, _, _, _, _, _)
ScanReceiversAnySm(array, i, is_existing, min_position, position, window_length, receiver_id, now_ns, is_from_preferred) ==
    IF i > Len(array)
    THEN [array |-> array, is_existing |-> is_existing, min_position |-> min_position]
    ELSE LET hit == receiver_id = array[i].receiver_id
             receiver == IF hit
                         THEN UpdateReceiver(array[i], position, window_length, now_ns)
                         ELSE array[i]
         IN ScanReceiversAnySm([array EXCEPT ![i] = receiver], i + 1, is_existing \/ hit,
                               MinLimit(receiver.last_position_plus_window, min_position),
                               position, window_length, receiver_id, now_ns,
                               is_from_preferred)

\* ScanReceivers that sets is_existing for each record anew, so that only a
\* match in the last record counts.
RECURSIVE ScanReceiversLastMatch(_, _, _, _, _, _, _, _, _)
ScanReceiversLastMatch(array, i, is_existing, min_position, position, window_length, receiver_id, now_ns, is_from_preferred) ==
    IF i > Len(array)
    THEN [array |-> array, is_existing |-> is_existing, min_position |-> min_position]
    ELSE LET hit == is_from_preferred /\ receiver_id = array[i].receiver_id
             receiver == IF hit
                         THEN UpdateReceiver(array[i], position, window_length, now_ns)
                         ELSE array[i]
         IN ScanReceiversLastMatch([array EXCEPT ![i] = receiver], i + 1, hit,
                          MinLimit(receiver.last_position_plus_window, min_position),
                          position, window_length, receiver_id, now_ns, is_from_preferred)

\* ScanReceivers that stamps every record it passes with the time of the SM.
RECURSIVE ScanReceiversStampsAll(_, _, _, _, _, _, _, _, _)
ScanReceiversStampsAll(array, i, is_existing, min_position, position, window_length, receiver_id, now_ns, is_from_preferred) ==
    IF i > Len(array)
    THEN [array |-> array, is_existing |-> is_existing, min_position |-> min_position]
    ELSE LET hit == is_from_preferred /\ receiver_id = array[i].receiver_id
             receiver == IF hit
                         THEN UpdateReceiver(array[i], position, window_length, now_ns)
                         ELSE [array[i] EXCEPT !.time_of_last_status_message =
                                  IF is_from_preferred THEN now_ns ELSE @]
         IN ScanReceiversStampsAll([array EXCEPT ![i] = receiver], i + 1, is_existing \/ hit,
                          MinLimit(receiver.last_position_plus_window, min_position),
                          position, window_length, receiver_id, now_ns, is_from_preferred)

\* Lines 105-119: the scan of apply_position_update.
RECURSIVE ScanReceivers(_, _, _, _, _, _, _, _, _)
ScanReceivers(array, i, is_existing, min_position, position, window_length, receiver_id, now_ns, is_from_preferred) ==
    IF i > Len(array)
    THEN [array |-> array, is_existing |-> is_existing, min_position |-> min_position]
    ELSE LET hit == is_from_preferred /\ receiver_id = array[i].receiver_id
             receiver == IF hit
                         THEN UpdateReceiver(array[i], position, window_length, now_ns)
                         ELSE array[i]
         IN ScanReceivers([array EXCEPT ![i] = receiver], i + 1, is_existing \/ hit,
                          MinLimit(receiver.last_position_plus_window, min_position),
                          position, window_length, receiver_id, now_ns, is_from_preferred)

\* aeron_array_capacity_grow (util/aeron_arrayutil.h): 2 at first, then doubled.
CapacityGrow(current_capacity) ==
    IF current_capacity = 0 THEN 2 ELSE 2 * current_capacity

\* AERON_ARRAY_ENSURE_CAPACITY (util/aeron_arrayutil.h): grows only when
\* length >= capacity; alloc_ok says whether the reallocation succeeds.
EnsureCapacity(length, current_capacity, alloc_ok) ==
    IF length >= current_capacity
    THEN IF alloc_ok
         THEN [result |-> 0, capacity |-> CapacityGrow(current_capacity)]
         ELSE [result |-> -1, capacity |-> current_capacity]
    ELSE [result |-> 0, capacity |-> current_capacity]

\* ReturnLimit without the clamp by snd_lmt.
ReturnLimitUnclamped(snd_lmt, min_position) == min_position

\* Line 145: the value apply_position_update returns.
ReturnLimit(snd_lmt, min_position) ==
    IF snd_lmt > min_position THEN snd_lmt ELSE min_position

\* apply_position_update that counts the window edge of the SM into the
\* minimum also when the record could not be inserted.
ApplyPositionUpdateCountsRejected(array, current_capacity, position, window_length, receiver_id, snd_lmt, now_ns, is_from_preferred, alloc_ok) ==
    LET scan == ScanReceivers(array, 1, FALSE, INT64_MAX, position, window_length,
                              receiver_id, now_ns, is_from_preferred)
    IN IF is_from_preferred /\ ~scan.is_existing
       THEN LET ensure == EnsureCapacity(Len(scan.array), current_capacity, alloc_ok)
            IN [receivers |-> IF ensure.result >= 0
                              THEN Append(scan.array,
                                       NewReceiver(position, window_length, receiver_id, now_ns))
                              ELSE scan.array,
                capacity |-> ensure.capacity,
                ensure_capacity_result |-> ensure.result,
                ret |-> ReturnLimit(snd_lmt,
                            MinLimit(position + window_length, scan.min_position))]
       ELSE [receivers |-> scan.array,
             capacity |-> current_capacity,
             ensure_capacity_result |-> 0,
             ret |-> ReturnLimit(snd_lmt, scan.min_position)]

\* aeron_preferred_flow_control_apply_position_update, lines 93-146.
ApplyPositionUpdate(array, current_capacity, position, window_length, receiver_id, snd_lmt, now_ns, is_from_preferred, alloc_ok) ==
    LET scan == ScanReceivers(array, 1, FALSE, INT64_MAX, position, window_length,
                              receiver_id, now_ns, is_from_preferred)
    IN IF is_from_preferred /\ ~scan.is_existing
       THEN LET ensure == EnsureCapacity(Len(scan.array), current_capacity, alloc_ok)
            IN IF ensure.result >= 0
               THEN [receivers |-> Append(scan.array,
                                     NewReceiver(position, window_length, receiver_id, now_ns)),
                     capacity |-> ensure.capacity,
                     ensure_capacity_result |-> ensure.result,
                     ret |-> ReturnLimit(snd_lmt,
                                 MinLimit(position + window_length, scan.min_position))]
               ELSE [receivers |-> scan.array,
                     capacity |-> ensure.capacity,
                     ensure_capacity_result |-> ensure.result,
                     ret |-> ReturnLimit(snd_lmt,
                                 IF Len(scan.array) = 0 THEN snd_lmt ELSE scan.min_position)]
       ELSE [receivers |-> scan.array,
             capacity |-> current_capacity,
             ensure_capacity_result |-> 0,
             ret |-> ReturnLimit(snd_lmt, scan.min_position)]

\* IsFromPreferred that does not look at whether the tag field is there.
IsFromPreferredUnchecked(sm_receiver_tag, configured_tag) ==
    sm_receiver_tag.tag = configured_tag

\* Lines 289-290: is the SM from a receiver carrying the configured tag.
IsFromPreferred(sm_receiver_tag, configured_tag) ==
    sm_receiver_tag.was_present /\ sm_receiver_tag.tag = configured_tag

\* on_sm of the preferred strategy that takes the bootstrap path for every
\* SM that is not from a preferred receiver, whatever the table holds.
PreferredOnSmResultAlwaysBootstrap(array, current_capacity, configured_tag, position, window_length, receiver_id, sm_receiver_tag, snd_lmt, now_ns, alloc_ok) ==
    LET is_from_preferred == IsFromPreferred(sm_receiver_tag, configured_tag)
        position_plus_window == position + window_length
    IN IF ~is_from_preferred
       THEN [receivers |-> array, capacity |-> current_capacity,
             ensure_capacity_result |-> 0,
             ret |-> IF snd_lmt > position_plus_window
                     THEN snd_lmt ELSE position_plus_window]
       ELSE ApplyPositionUpdate(array, current_capacity, position, window_length,
                                receiver_id, snd_lmt, now_ns, is_from_preferred, alloc_ok)

\* aeron_preferred_flow_control_strategy_on_sm, lines 266-306.
PreferredOnSmResult(array, current_capacity, configured_tag, position, window_length, receiver_id, sm_receiver_tag, snd_lmt, now_ns, alloc_ok) ==
    LET is_from_preferred == IsFromPreferred(sm_receiver_tag, configured_tag)
        position_plus_window == position + window_length
    IN IF ~is_from_preferred /\ Len(array) = 0
       THEN [receivers |-> array, capacity |-> current_capacity,
             ensure_capacity_result |-> 0,
             ret |-> IF snd_lmt > position_plus_window
                     THEN snd_lmt ELSE position_plus_window]
       ELSE ApplyPositionUpdate(array, current_capacity, position, window_length,
                                receiver_id, snd_lmt, now_ns, is_from_preferred, alloc_ok)

(***************************************************************************)
(* aeron_flow_control.c: the max strategy.                                 *)
(***************************************************************************)

\* on_sm of the max strategy that returns the window edge without the clamp.
MaxOnSmResultUnclamped(position, receiver_window, snd_lmt) ==
    position + receiver_window

\* aeron_max_flow_control_strategy_on_sm, lines 59-79.
MaxOnSmResult(position, receiver_window, snd_lmt) ==
    LET window_edge == position + receiver_window
    IN IF snd_lmt > window_edge THEN snd_lmt ELSE window_edge

\* aeron_max_flow_control_strategy_on_idle, lines 49-57.
MaxOnIdleResult(now_ns, snd_lmt) == snd_lmt

(***************************************************************************)
(* aeron_flow_control.c: the parser of the fc options.                     *)
(* A C string is a sequence of one-character strings; a pointer into the   *)
(* options is a 1-based index, 0 standing for NULL.                        *)
(***************************************************************************)

AERON_FLOW_CONTROL_NUMBER_BUFFER_LEN == 64
EINVAL == 22

\* The terminating byte of a C string.
Nul == ""

Digits == {"0", "1", "2", "3", "4", "5", "6", "7", "8", "9"}

DigitValue(c) ==
    CASE c = "0" -> 0 [] c = "1" -> 1 [] c = "2" -> 2 [] c = "3" -> 3 [] c = "4" -> 4
      [] c = "5" -> 5 [] c = "6" -> 6 [] c = "7" -> 7 [] c = "8" -> 8 [] c = "9" -> 9

\* Line 228: memset(number_buffer, 0, AERON_FLOW_CONTROL_NUMBER_BUFFER_LEN).
ZeroedBuffer == [k \in 1..AERON_FLOW_CONTROL_NUMBER_BUFFER_LEN |-> Nul]

\* Line 236: memchr(current_option, ',', remaining), 0 when there is none.
MemChrComma(options_text, current_option, remaining) ==
    LET hits == {k \in current_option..(current_option + remaining - 1) :
                    options_text[k] = ","}
    IN IF hits = {} THEN 0 ELSE CHOOSE k \in hits : \A h \in hits : k <= h

\* Line 276: strncpy(number_buffer, value, value_length). The value holds no
\* terminating byte, so exactly value_length bytes are written and the bytes
\* of the buffer after them stay as they were.
StrNCpy(buffer, value, value_length) ==
    [k \in DOMAIN buffer |-> IF k <= value_length THEN value[k] ELSE buffer[k]]

\* The index of the terminating byte of the C string at buffer[from].
RECURSIVE StrEnd(_, _)
StrEnd(buffer, from) ==
    IF from > Len(buffer) \/ buffer[from] = Nul THEN from ELSE StrEnd(buffer, from + 1)

\* The digits of strtol and strtoll: the value so far and the first index
\* that is no digit.
RECURSIVE ScanDigits(_, _, _)
ScanDigits(buffer, from, value) ==
    IF from <= Len(buffer) /\ buffer[from] \in Digits
    THEN ScanDigits(buffer, from + 1, 10 * value + DigitValue(buffer[from]))
    ELSE [value |-> value, end |-> from]

RECURSIVE SkipSpaces(_, _)
SkipSpaces(buffer, from) ==
    IF from <= Len(buffer) /\ buffer[from] = " " THEN SkipSpaces(buffer, from + 1) ELSE from

\* strtol(number_buffer, &end_ptr, 10) of <stdlib.h>, for values inside the
\* range of long: leading spaces, an optional sign, decimal digits. With no
\* digit at all the value is 0 and end_ptr is the start of the string.
StrToL(buffer) ==
    LET start == SkipSpaces(buffer, 1)
        signed == start <= Len(buffer) /\ buffer[start] \in {"+", "-"}
        first == IF signed THEN start + 1 ELSE start
        digits == ScanDigits(buffer, first, 0)
    IN IF digits.end = first
       THEN [value |-> 0, end |-> 1]
       ELSE [value |-> IF signed /\ buffer[start] = "-" THEN 0 - digits.value
                       ELSE digits.value,
             end |-> digits.end]

\* aeron_parse_duration_ns (util/aeron_parse_util.c): a non-negative decimal
\* number, alone (nanoseconds) or followed by exactly one of s, ms, us, ns.
ParseDurationNs(buffer) ==
    LET number == StrToL(buffer)
        suffix == SubSeq(buffer, number.end, StrEnd(buffer, number.end) - 1)
    IN IF number.value < 0 \/ number.end = 1
       THEN [rc |-> -1, ns |-> 0]
       ELSE CASE suffix = <<>> -> [rc |-> 0, ns |-> number.value]
              [] suffix = <<"s">> -> [rc |-> 0, ns |-> number.value * 1000000000]
              [] suffix = <<"m", "s">> -> [rc |-> 0, ns |-> number.value * 1000000]
              [] suffix = <<"u", "s">> -> [rc |-> 0, ns |-> number.value * 1000]
              [] suffix = <<"n", "s">> -> [rc |-> 0, ns |-> number.value]
              [] OTHER -> [rc |-> -1, ns |-> 0]

\* Lines 221-225: the options record before the first token.
InitialOptions ==
    [strategy_name_is_null |-> TRUE, strategy_name |-> <<>>, timeout_ns |-> 0,
     has_receiver_tag |-> FALSE, receiver_tag |-> -1]

\* Lines 278-301: a g: field, its value already copied to number_buffer.
ParseGroup(out, number_buffer) ==
    LET number == StrToL(number_buffer)
    IN IF number_buffer[number.end] = Nul
       THEN [rc |-> 0, number_buffer |-> number_buffer,
             out |-> [out EXCEPT !.has_receiver_tag = TRUE,
                                 !.receiver_tag = number.value]]
       ELSE [rc |-> 0 - EINVAL, number_buffer |-> number_buffer, out |-> out]

\* Lines 302-319: a t: field, its value already copied to number_buffer.
ParseTimeout(out, number_buffer) ==
    LET duration == ParseDurationNs(number_buffer)
    IN IF 0 <= duration.rc
       THEN [rc |-> 0, number_buffer |-> number_buffer,
             out |-> [out EXCEPT !.timeout_ns = duration.ns]]
       ELSE [rc |-> 0 - EINVAL, number_buffer |-> number_buffer, out |-> out]

\* Lines 253-330: one token of the options, at current_option and of length
\* current_option_length.
ParseOption(options_text, current_option, current_option_length, out, number_buffer) ==
    IF out.strategy_name_is_null
    THEN [rc |-> 0, number_buffer |-> number_buffer,
          out |-> [out EXCEPT
                     !.strategy_name_is_null = FALSE,
                     !.strategy_name = SubSeq(options_text, current_option,
                                              current_option + current_option_length - 1)]]
    ELSE IF /\ current_option_length > 2
            /\ options_text[current_option] \in {"g", "t"}
            /\ options_text[current_option + 1] = ":"
         THEN LET value_length == current_option_length - 2
                  value == SubSeq(options_text, current_option + 2,
                                  current_option + current_option_length - 1)
              IN IF AERON_FLOW_CONTROL_NUMBER_BUFFER_LEN <= value_length
                 THEN [rc |-> 0 - EINVAL, number_buffer |-> number_buffer, out |-> out]
                 ELSE IF options_text[current_option] = "g"
                      THEN ParseGroup(out, StrNCpy(number_buffer, value, value_length))
                      ELSE ParseTimeout(out, StrNCpy(number_buffer, value, value_length))
         ELSE [rc |-> 0 - EINVAL, number_buffer |-> number_buffer, out |-> out]

\* Lines 234-334: the do-while loop over the tokens.
RECURSIVE ParseLoop(_, _, _, _, _)
ParseLoop(options_text, current_option, remaining, out, number_buffer) ==
    LET found == MemChrComma(options_text, current_option, remaining)
        current_option_length == IF found = 0 THEN remaining ELSE found - current_option
        next_option == IF found = 0 THEN 0 ELSE found + 1
        still_remaining == IF found = 0 THEN remaining
                           ELSE remaining - (current_option_length + 1)
        step == ParseOption(options_text, current_option, current_option_length,
                            out, number_buffer)
    IN IF step.rc # 0
       THEN [rc |-> step.rc, out |-> step.out]
       ELSE IF next_option # 0 /\ 0 < still_remaining
            THEN ParseLoop(options_text, next_option, still_remaining,
                           step.out, step.number_buffer)
            ELSE [rc |-> 0, out |-> step.out]

\* aeron_flow_control_parse_preferred_options, lines 216-337.
ParsePreferredOptions(options_length, options_text) ==
    ParseLoop(options_text, 1, options_length, InitialOptions, ZeroedBuffer)

(***************************************************************************)
(* The suppliers and the selection of the strategy from the channel URI.   *)
(* An optional string (a getenv result, the fc parameter) is <<>> when it  *)
(* is NULL and <<text>> otherwise.                                         *)
(***************************************************************************)

\* AERON_MAX_FLOW_CONTROL_STRATEGY_RECEIVER_TIMEOUT_NS, the built-in default of
\* lines 196 and 327. Its definition is in aeron_flow_control.h, which is not
\* among the sources modelled; it is described as a compile-time constant of
\* some seconds, typically five. It is taken here as two seconds, the largest
\* whole number of seconds that TLC's integers hold as nanoseconds.
AERON_MAX_FLOW_CONTROL_STRATEGY_RECEIVER_TIMEOUT_NS == 2000000000

\* The text as a C string: its characters and the terminating byte.
CString(text) == Append(text, Nul)

\* initialize_aeron_min_flow_control_strategy_timeout (lines 193-204) and
\* initialize_aeron_preferred_flow_control_strategy_timeout (lines 324-335):
\* the value they store, given what getenv returns. The duration parser leaves
\* timeout_ns as it was when it fails.
InitialTimeout(timeout_str) ==
    IF timeout_str # <<>> /\ ParseDurationNs(CString(timeout_str[1])).rc = 0
    THEN ParseDurationNs(CString(timeout_str[1])).ns
    ELSE AERON_MAX_FLOW_CONTROL_STRATEGY_RECEIVER_TIMEOUT_NS

\* Lines 189-191 and 320-322 at program start.
InitialStatics ==
    [min_timeout_is_initialized |-> FALSE,
     aeron_min_flow_control_strategy_timeout_ns |-> 0,
     preferred_timeout_is_initialized |-> FALSE,
     aeron_preferred_flow_control_strategy_timeout_ns |-> 0]

\* Line 226: aeron_thread_once(&min_timeout_is_initialized, ...).
MinTimeoutOnce(current_statics, current_env) ==
    IF current_statics.min_timeout_is_initialized
    THEN current_statics
    ELSE [current_statics EXCEPT
            !.min_timeout_is_initialized = TRUE,
            !.aeron_min_flow_control_strategy_timeout_ns =
                InitialTimeout(current_env.min_timeout)]

\* Lines 367-368: aeron_thread_once(&preferred_timeout_is_initialized, ...).
PreferredTimeoutOnce(current_statics, current_env) ==
    IF current_statics.preferred_timeout_is_initialized
    THEN current_statics
    ELSE [current_statics EXCEPT
            !.preferred_timeout_is_initialized = TRUE,
            !.aeron_preferred_flow_control_strategy_timeout_ns =
                InitialTimeout(current_env.preferred_timeout)]

\* What a supplier hands back when it builds no strategy.
NoStrategy(current_statics) ==
    [rc |-> -1, kind |-> "failed", receiver_timeout_ns |-> 0, receiver_tag |-> 0,
     statics |-> current_statics]

\* aeron_max_multicast_flow_control_strategy_supplier, lines 88-111.
MaxSupplier(current_statics, alloc_ok) ==
    IF ~alloc_ok
    THEN NoStrategy(current_statics)
    ELSE [rc |-> 0, kind |-> "max", receiver_timeout_ns |-> 0, receiver_tag |-> 0,
          statics |-> current_statics]

\* aeron_min_flow_control_strategy_supplier, lines 206-239. It does not read
\* the fc parameter of the channel.
MinSupplier(fc, current_statics, current_env, alloc_ok) ==
    IF ~alloc_ok
    THEN NoStrategy(current_statics)
    ELSE LET once == MinTimeoutOnce(current_statics, current_env)
         IN [rc |-> 0, kind |-> "min",
             receiver_timeout_ns |-> once.aeron_min_flow_control_strategy_timeout_ns,
             receiver_tag |-> 0,
             statics |-> once]

\* PreferredSupplier that takes the process-wide default whatever the t: field.
PreferredSupplierDefaultTimeout(fc, current_statics, current_env, alloc_ok) ==
    LET again == ParsePreferredOptions(Len(fc[1]), fc[1])
    IN IF again.rc < 0 \/ ~alloc_ok
       THEN NoStrategy(current_statics)
       ELSE LET once == PreferredTimeoutOnce(current_statics, current_env)
            IN [rc |-> 0, kind |-> "preferred",
                receiver_timeout_ns |->
                    once.aeron_preferred_flow_control_strategy_timeout_ns,
                receiver_tag |-> again.out.receiver_tag,
                statics |-> once]

\* aeron_preferred_flow_control_strategy_supplier, lines 337-385.
PreferredSupplier(fc, current_statics, current_env, alloc_ok) ==
    LET again == ParsePreferredOptions(Len(fc[1]), fc[1])
    IN IF again.rc < 0 \/ ~alloc_ok
       THEN NoStrategy(current_statics)
       ELSE LET once == PreferredTimeoutOnce(current_statics, current_env)
            IN [rc |-> 0, kind |-> "preferred",
                receiver_timeout_ns |->
                    IF again.out.timeout_ns # 0
                    THEN again.out.timeout_ns
                    ELSE once.aeron_preferred_flow_control_strategy_timeout_ns,
                receiver_tag |-> again.out.receiver_tag,
                statics |-> once]

\* The fallback_flow_control_supplier the caller passes in: what it builds is
\* the caller's business, and it may fail.
FallbackSupplier(current_statics, alloc_ok) ==
    IF ~alloc_ok
    THEN NoStrategy(current_statics)
    ELSE [rc |-> 0, kind |-> "fallback", receiver_timeout_ns |-> 0, receiver_tag |-> 0,
          statics |-> current_statics]

\* SelectStrategy that takes a name for a known one when it starts with it.
SelectStrategyByPrefix(fc, preferred_options, current_statics, current_env, alloc_ok) ==
    IF fc = <<>>
    THEN FallbackSupplier(current_statics, alloc_ok)
    ELSE IF preferred_options.rc < 0
    THEN NoStrategy(current_statics)
    ELSE IF Len(preferred_options.out.strategy_name) = 0
    THEN NoStrategy(current_statics)
    ELSE IF Len(preferred_options.out.strategy_name) >= 3
            /\ SubSeq(preferred_options.out.strategy_name, 1, 3) = <<"m", "a", "x">>
    THEN MaxSupplier(current_statics, alloc_ok)
    ELSE IF Len(preferred_options.out.strategy_name) >= 3
            /\ SubSeq(preferred_options.out.strategy_name, 1, 3) = <<"m", "i", "n">>
    THEN IF preferred_options.out.has_receiver_tag
         THEN PreferredSupplier(fc, current_statics, current_env, alloc_ok)
         ELSE MinSupplier(fc, current_statics, current_env, alloc_ok)
    ELSE NoStrategy(current_statics)

\* aeron_default_multicast_flow_control_strategy_supplier, lines 150-211,
\* given the parse of line 170.
SelectStrategy(fc, preferred_options, current_statics, current_env, alloc_ok) ==
    IF fc = <<>>
    THEN FallbackSupplier(current_statics, alloc_ok)
    ELSE IF preferred_options.rc < 0
    THEN NoStrategy(current_statics)
    ELSE IF Len(preferred_options.out.strategy_name) = 0
            \/ preferred_options.out.strategy_name_is_null
    THEN NoStrategy(current_statics)
    ELSE IF preferred_options.out.strategy_name = <<"m", "a", "x">>
    THEN MaxSupplier(current_statics, alloc_ok)
    ELSE IF preferred_options.out.strategy_name = <<"m", "i", "n">>
    THEN IF preferred_options.out.has_receiver_tag
         THEN PreferredSupplier(fc, current_statics, current_env, alloc_ok)
         ELSE MinSupplier(fc, current_statics, current_env, alloc_ok)
    ELSE NoStrategy(current_statics)

(***************************************************************************)
(* The inputs of the parser and of the selection: a strategy name followed *)
(* by up to MaxFields fields. Each field is kept with what it means, which *)
(* the parser never sees: it is given the text alone.                      *)
(***************************************************************************)
MaxFields == 2

StrategyNames == {<<"m", "i", "n">>, <<"m", "a", "x">>}

ValidFields ==
    {[prefix |-> "t", value |-> <<"1", "s">>, means |-> 1000000000],
     [prefix |-> "t", value |-> <<"5", "0", "0", "m", "s">>, means |-> 500000000],
     [prefix |-> "t", value |-> <<"0", "s">>, means |-> 0],
     [prefix |-> "g", value |-> <<"1", "2", "3", "4", "5">>, means |-> 12345],
     [prefix |-> "g", value |-> <<"4", "2">>, means |-> 42],
     [prefix |-> "g", value |-> <<"7">>, means |-> 7]}

FieldLists == UNION {[1..n -> ValidFields] : n \in 0..MaxFields}

\* The text of one token: prefix, colon and value, or the value alone for a
\* token written without a prefix.
TokenText(field) ==
    IF field.prefix = "" THEN field.value ELSE <<field.prefix, ":">> \o field.value

RECURSIVE FieldsText(_)
FieldsText(fields) ==
    IF fields = <<>> THEN <<>>
    ELSE <<",">> \o TokenText(fields[1]) \o FieldsText(Tail(fields))

OptionsOf(name, fields) ==
    [fc |-> <<name \o FieldsText(fields)>>, name |-> name, fields |-> fields]

ValidOptions == {OptionsOf(name, fields) : name \in StrategyNames, fields \in FieldLists}

\* Tokens that are no field: an empty token, a word, another prefix, a
\* prefix without a value, a value of AERON_FLOW_CONTROL_NUMBER_BUFFER_LEN
\* characters, a g: value that is no integer, a t: value that is no duration.
RejectedFields ==
    {[prefix |-> "", value |-> <<>>, means |-> 0],
     [prefix |-> "", value |-> <<"x">>, means |-> 0],
     [prefix |-> "x", value |-> <<"1">>, means |-> 0],
     [prefix |-> "t", value |-> <<>>, means |-> 0],
     [prefix |-> "g", value |-> <<>>, means |-> 0],
     [prefix |-> "g", value |-> [k \in 1..AERON_FLOW_CONTROL_NUMBER_BUFFER_LEN |-> "1"],
      means |-> 0],
     [prefix |-> "g", value |-> <<"7", "x">>, means |-> 0],
     [prefix |-> "g", value |-> <<"-">>, means |-> 0],
     [prefix |-> "t", value |-> <<"1", "x">>, means |-> 0],
     [prefix |-> "t", value |-> <<"s">>, means |-> 0]}

\* fc values with at least one such token among their fields.
RejectedOptions ==
    {OptionsOf(name, fields) :
        name \in StrategyNames,
        fields \in {l \in UNION {[1..n -> ValidFields \cup RejectedFields] :
                                    n \in 1..MaxFields} :
                      \E i \in DOMAIN l : l[i] \in RejectedFields}}

\* A channel URI without the fc parameter.
NoFc == [fc |-> <<>>, name |-> <<>>, fields |-> <<>>]

NotParsed == [done |-> FALSE, rc |-> 0, out |-> InitialOptions]

Environments ==
    [min_timeout : {<<>>, << <<"1", "s">> >>},
     preferred_timeout : {<<>>, << <<"1", "s">> >>}]

NoEnvironment == [min_timeout |-> <<>>, preferred_timeout |-> <<>>]

\* Strategy names the selection does not know: none at all, another word, and
\* a word that starts like a known one.
UnknownNames == {<<>>, <<"b", "o", "g", "u", "s">>, <<"m", "i", "n", "x">>}

\* fc values with those names, alone and followed by fields.
UnknownOptions == {OptionsOf(name, fields) : name \in UnknownNames, fields \in FieldLists}

\* Before the selecting supplier was called. alloc_ok is whether aeron_alloc
\* succeeds in the supplier that is called.
NotSupplied == [done |-> FALSE, rc |-> 0, alloc_ok |-> TRUE]

(***************************************************************************)
(* What has happened to each receiver_id, kept beside the strategy:        *)
(* whether an SM of it was accepted and it was not evicted since, the      *)
(* highest position of those SMs, and the time of the most recent one.     *)
(***************************************************************************)
NotAccepted == [live |-> FALSE, max_position |-> 0, time |-> 0]

NoHistory == [id \in GrowthReceiverIds |-> NotAccepted]

\* An SM of receiver_id was accepted.
AcceptSm(h, receiver_id, position, now_ns) ==
    [h EXCEPT ![receiver_id] =
        [live |-> TRUE,
         max_position |-> IF h[receiver_id].live /\ h[receiver_id].max_position >= position
                          THEN h[receiver_id].max_position
                          ELSE position,
         time |-> now_ns]]

\* An idle tick at now_ns: the receivers whose most recent accepted SM is
\* older than the timeout are evicted.
EvictStale(h, timeout_ns, now_ns) ==
    [id \in DOMAIN h |->
        IF h[id].live /\ now_ns - h[id].time > timeout_ns THEN NotAccepted ELSE h[id]]

\* No SM was accepted yet: no receiver_id has a source address.
NoSource == [addr |-> 0, moved |-> FALSE]

NoSources == [id \in GrowthReceiverIds |-> NoSource]

\* The source addresses after an SM of receiver_id that came from recv_addr:
\* moved says that the accepted SM before it came from another address.
SourcesAfterSm(src, receiver_id, recv_addr, accepted) ==
    IF accepted
    THEN [src EXCEPT ![receiver_id] =
             [addr |-> recv_addr,
              moved |-> src[receiver_id].addr # 0 /\ src[receiver_id].addr # recv_addr]]
    ELSE src

\* The source addresses after an idle tick that leaves the history as after:
\* an evicted receiver_id has none.
SourcesAfterIdle(src, after) ==
    [id \in DOMAIN src |-> IF after[id].live THEN src[id] ELSE NoSource]

\* Is some receiver_id marked in the history.
SomeLive(h) == \E id \in DOMAIN h : h[id].live

\* emptied after an SM: an accepted one ends it.
EmptiedAfterSm(was_emptied, accepted) == was_emptied /\ ~accepted

\* emptied after an idle tick that takes the history from h to after.
EmptiedAfterIdle(was_emptied, h, after) ==
    IF SomeLive(h) /\ ~SomeLive(after) THEN TRUE ELSE was_emptied

(***************************************************************************)
(* Strategies constructed by several threads at the same time.             *)
(* aeron_thread_once (concurrent/aeron_thread.h) is the one-shot           *)
(* initializer of the platform, pthread_once: the first caller runs the    *)
(* function, the callers that arrive while it runs wait until it has       *)
(* returned, and the later ones go on at once.                             *)
(***************************************************************************)
MaxThreads == 3

ThreadIds == 1..MaxThreads

\* No thread constructs anything: the specifications of one driver thread.
NoThreads == <<>>

\* A control before its first use; runs counts the calls of the initializer.
OnceControl == [state |-> "idle", runs |-> 0]

OnceNotUsed == [min |-> OnceControl, preferred |-> OnceControl]

\* OnceMayRun that lets every caller run the function until it has returned.
OnceMayRunUnguarded(control) == control.state # "done"

\* aeron_thread_once: does this caller run the function.
OnceMayRun(control) == control.state = "idle"

\* aeron_thread_once: may this caller return without running the function.
OnceMayReturn(control) == control.state = "done"

(***************************************************************************)
(* The strategy as the driver uses it: one call per step.                  *)
(***************************************************************************)

(***************************************************************************)
(* The driver between the calls: it takes the value a call returns as the  *)
(* new sender limit and passes it to the next call. Beside the limit, what *)
(* the calls so far did to the set of tracked receivers: whether it has    *)
(* changed since the last on_idle, whether the on_idle that ran last was   *)
(* the first after a change, and the two most recent operations.           *)
(***************************************************************************)
NoDriver ==
    [snd_lmt |-> 0, set_changed |-> FALSE, first_idle |-> FALSE,
     last_op |-> "none", previous_op |-> "none"]

\* The send limits a call can be given: the one the driver holds when it
\* chains the calls, any of the inputs otherwise.
SndLmtsOf(in) == IF in.chained THEN {driver.snd_lmt} ELSE in.snd_lmts

\* The receiver_ids a table tracks.
TrackedIds(table) == {table[i].receiver_id : i \in DOMAIN table}

\* The driver after on_status_message returned ret.
DriverAfterSm(in, d, before, after, ret) ==
    IF in.chained
    THEN [snd_lmt |-> ret,
          set_changed |-> d.set_changed \/ TrackedIds(before) # TrackedIds(after),
          first_idle |-> FALSE,
          last_op |-> "on_sm", previous_op |-> d.last_op]
    ELSE d

\* The driver after on_idle returned ret.
DriverAfterIdle(in, d, before, after, ret) ==
    IF in.chained
    THEN [snd_lmt |-> ret,
          set_changed |-> TrackedIds(before) # TrackedIds(after),
          first_idle |-> d.set_changed,
          last_op |-> "on_idle", previous_op |-> d.last_op]
    ELSE d

NoCall ==
    [op |-> "none", position |-> 0, window_length |-> 0, receiver_id |-> 0,
     sm_receiver_tag |-> NoTag, snd_lmt |-> 0, now_ns |-> 0,
     ensure_capacity_result |-> 0, ret |-> 0, before |-> <<>>, recv_addr |-> 0]

\* A strategy of each kind right after its supplier built it: the table is
\* empty (lines 230-232 and 373-375).
Init ==
    /\ kind \in {"max", "min", "preferred"}
    /\ receivers = <<>>
    /\ capacity = 0
    /\ receiver_timeout_ns = ReceiverTimeout
    /\ receiver_tag = ConfiguredTag
    /\ call = NoCall
    /\ options = NoFc
    /\ parsed = NotParsed
    /\ env = NoEnvironment
    /\ statics = InitialStatics
    /\ supplied = NotSupplied
    /\ history = NoHistory
    /\ threads = NoThreads
    /\ init_once = OnceNotUsed
    /\ emptied = FALSE
    /\ driver = NoDriver
    /\ sources = NoSources

\* The inputs of the strategy calls of the specification Spec.
CallInputs ==
    [positions |-> Positions, windows |-> Windows, receiver_ids |-> ReceiverIds,
     sm_tags |-> SmTags, snd_lmts |-> SndLmts, sm_times |-> SmTimes,
     idle_times |-> IdleTimes, alloc_may_fail |-> TRUE, chained |-> FALSE,
     recv_addrs |-> {1}]

\* The outcomes of growing the table: the allocation can fail only when one is
\* made, which is when the table is full.
AllocOutcomes(in) ==
    IF in.alloc_may_fail /\ Len(receivers) >= capacity THEN BOOLEAN ELSE {TRUE}

\* aeron_max_flow_control_strategy_on_sm, lines 59-79 of aeron_flow_control.c.
MaxOnSm(in) ==
    /\ kind = "max"
    /\ call.op = "none"
    /\ \E position \in in.positions, window_length \in in.windows,
          receiver_id \in in.receiver_ids, snd_lmt \in in.snd_lmts, now_ns \in in.sm_times :
          call' = [NoCall EXCEPT !.op = "on_sm", !.position = position,
                       !.window_length = window_length, !.receiver_id = receiver_id,
                       !.snd_lmt = snd_lmt, !.now_ns = now_ns, !.before = receivers,
                       !.ret = MaxOnSmResult(position, window_length, snd_lmt)]
    /\ UNCHANGED <<kind, receivers, capacity, receiver_timeout_ns, receiver_tag,
                   options, parsed, env, statics, supplied, history, threads, init_once,
                   emptied, driver, sources>>

\* aeron_max_flow_control_strategy_on_idle, lines 49-57 of aeron_flow_control.c.
MaxOnIdle(in) ==
    /\ kind = "max"
    /\ call.op = "none"
    /\ \E now_ns \in in.idle_times, snd_lmt \in in.snd_lmts :
          call' = [NoCall EXCEPT !.op = "on_idle", !.snd_lmt = snd_lmt, !.now_ns = now_ns,
                       !.before = receivers, !.ret = MaxOnIdleResult(now_ns, snd_lmt)]
    /\ UNCHANGED <<kind, receivers, capacity, receiver_timeout_ns, receiver_tag,
                   options, parsed, env, statics, supplied, history, threads, init_once,
                   emptied, driver, sources>>

\* aeron_min_flow_control_strategy_on_sm, lines 149-175.
MinOnSm(in) ==
    /\ kind = "min"
    /\ call.op = "none"
    /\ \E position \in in.positions, window_length \in in.windows,
          receiver_id \in in.receiver_ids, snd_lmt \in SndLmtsOf(in), now_ns \in in.sm_times,
          alloc_ok \in AllocOutcomes(in), recv_addr \in in.recv_addrs :
          \E r \in {ApplyPositionUpdate(receivers, capacity, position, window_length,
                                        receiver_id, snd_lmt, now_ns, TRUE, alloc_ok)} :
             /\ receivers' = r.receivers
             /\ capacity' = r.capacity
             /\ call' = [NoCall EXCEPT !.op = "on_sm", !.position = position,
                             !.window_length = window_length, !.receiver_id = receiver_id,
                             !.snd_lmt = snd_lmt, !.now_ns = now_ns, !.before = receivers,
                             !.ensure_capacity_result = r.ensure_capacity_result,
                             !.ret = r.ret, !.recv_addr = recv_addr]
             /\ history' = IF r.ensure_capacity_result >= 0
                           THEN AcceptSm(history, receiver_id, position, now_ns)
                           ELSE history
             /\ emptied' = EmptiedAfterSm(emptied, r.ensure_capacity_result >= 0)
             /\ sources' = SourcesAfterSm(sources, receiver_id, recv_addr,
                                          r.ensure_capacity_result >= 0)
             /\ driver' = DriverAfterSm(in, driver, receivers, r.receivers, r.ret)
    /\ UNCHANGED <<kind, receiver_timeout_ns, receiver_tag, options, parsed, env, statics,
                   supplied, threads, init_once>>

\* aeron_preferred_flow_control_strategy_on_sm, lines 266-306.
PreferredOnSm(in) ==
    /\ kind = "preferred"
    /\ call.op = "none"
    /\ \E position \in in.positions, window_length \in in.windows,
          receiver_id \in in.receiver_ids, sm_receiver_tag \in in.sm_tags,
          snd_lmt \in SndLmtsOf(in), now_ns \in in.sm_times, alloc_ok \in AllocOutcomes(in),
          recv_addr \in in.recv_addrs :
          \E r \in {PreferredOnSmResult(receivers, capacity, receiver_tag, position,
                                        window_length, receiver_id, sm_receiver_tag,
                                        snd_lmt, now_ns, alloc_ok)} :
             /\ receivers' = r.receivers
             /\ capacity' = r.capacity
             /\ call' = [NoCall EXCEPT !.op = "on_sm", !.position = position,
                             !.window_length = window_length, !.receiver_id = receiver_id,
                             !.sm_receiver_tag = sm_receiver_tag,
                             !.snd_lmt = snd_lmt, !.now_ns = now_ns, !.before = receivers,
                             !.ensure_capacity_result = r.ensure_capacity_result,
                             !.ret = r.ret, !.recv_addr = recv_addr]
             /\ history' = IF /\ sm_receiver_tag.was_present
                              /\ sm_receiver_tag.tag = receiver_tag
                              /\ r.ensure_capacity_result >= 0
                           THEN AcceptSm(history, receiver_id, position, now_ns)
                           ELSE history
             /\ emptied' = EmptiedAfterSm(emptied,
                                          /\ sm_receiver_tag.was_present
                                          /\ sm_receiver_tag.tag = receiver_tag
                                          /\ r.ensure_capacity_result >= 0)
             /\ sources' = SourcesAfterSm(sources, receiver_id, recv_addr,
                                          /\ sm_receiver_tag.was_present
                                          /\ sm_receiver_tag.tag = receiver_tag
                                          /\ r.ensure_capacity_result >= 0)
             /\ driver' = DriverAfterSm(in, driver, receivers, r.receivers, r.ret)
    /\ UNCHANGED <<kind, receiver_timeout_ns, receiver_tag, options, parsed, env, statics,
                   supplied, threads, init_once>>

\* aeron_min_flow_control_strategy_on_idle (lines 59-91), which
\* aeron_preferred_flow_control_strategy_on_idle (lines 248-264) delegates to.
MinOnIdle(in) ==
    /\ kind \in {"min", "preferred"}
    /\ call.op = "none"
    /\ \E now_ns \in in.idle_times, snd_lmt \in SndLmtsOf(in) :
          \E r \in {MinOnIdleResult(receivers, receiver_timeout_ns, now_ns, snd_lmt)} :
             /\ receivers' = r.receivers
             /\ call' = [NoCall EXCEPT !.op = "on_idle", !.snd_lmt = snd_lmt,
                             !.now_ns = now_ns, !.before = receivers, !.ret = r.ret]
             /\ history' = EvictStale(history, receiver_timeout_ns, now_ns)
             /\ emptied' = EmptiedAfterIdle(emptied, history,
                                            EvictStale(history, receiver_timeout_ns, now_ns))
             /\ sources' = SourcesAfterIdle(sources,
                                            EvictStale(history, receiver_timeout_ns, now_ns))
             /\ driver' = DriverAfterIdle(in, driver, receivers, r.receivers, r.ret)
    /\ UNCHANGED <<kind, capacity, receiver_timeout_ns, receiver_tag, options, parsed,
                   env, statics, supplied, threads, init_once>>

\* The call has returned: the driver takes the returned limit and goes back to
\* its loop, from which the next call is made.
DriverResume ==
    /\ call.op # "none"
    /\ call' = NoCall
    /\ UNCHANGED <<kind, receivers, capacity, receiver_timeout_ns, receiver_tag,
                   options, parsed, env, statics, supplied, history, threads, init_once,
                   emptied, driver, sources>>

\* The strategy calls of one publication are made by one driver thread, one
\* after the other.
Next ==
    \/ MaxOnSm(CallInputs)
    \/ MaxOnIdle(CallInputs)
    \/ MinOnSm(CallInputs)
    \/ PreferredOnSm(CallInputs)
    \/ MinOnIdle(CallInputs)
    \/ DriverResume

Spec == Init /\ [][Next]_vars

(***************************************************************************)
(* The receiver table filled to its capacity: the min and the preferred    *)
(* strategy called with SMs of more receivers than the table holds before  *)
(* it grows, every growth free to fail.                                    *)
(***************************************************************************)
InitGrowth ==
    /\ Init
    /\ kind \in {"min", "preferred"}

\* The inputs of the strategy calls of the specification SpecGrowth.
GrowthInputs ==
    [positions |-> {0}, windows |-> Windows, receiver_ids |-> GrowthReceiverIds,
     sm_tags |-> {[was_present |-> TRUE, tag |-> ConfiguredTag]}, snd_lmts |-> SndLmts,
     sm_times |-> {0}, idle_times |-> {0, ReceiverTimeout + 1}, alloc_may_fail |-> TRUE, chained |-> FALSE,
     recv_addrs |-> {1}]

NextGrowth ==
    \/ MinOnSm(GrowthInputs)
    \/ PreferredOnSm(GrowthInputs)
    \/ MinOnIdle(GrowthInputs)
    \/ DriverResume

SpecGrowth == InitGrowth /\ [][NextGrowth]_vars

(***************************************************************************)
(* The calls of one publication chained by the driver: each call is given  *)
(* as snd_lmt the value the call before it returned, the first one 0.      *)
(***************************************************************************)
InitDriver ==
    /\ Init
    /\ kind \in {"min", "preferred"}

\* The inputs of the strategy calls of the specification SpecDriver; snd_lmt
\* is not among them, the driver holds it.
DriverInputs ==
    [positions |-> {0}, windows |-> Windows, receiver_ids |-> ReceiverIds,
     sm_tags |-> {[was_present |-> TRUE, tag |-> ConfiguredTag],
                  [was_present |-> FALSE, tag |-> ConfiguredTag]},
     snd_lmts |-> {}, sm_times |-> SmTimes, idle_times |-> {0, ReceiverTimeout + 1},
     alloc_may_fail |-> TRUE, chained |-> TRUE, recv_addrs |-> {1}]

NextDriver ==
    \/ MinOnSm(DriverInputs)
    \/ PreferredOnSm(DriverInputs)
    \/ MinOnIdle(DriverInputs)
    \/ DriverResume

SpecDriver == InitDriver /\ [][NextDriver]_vars

(***************************************************************************)
(* SMs that reach the strategy from more than one source address: recv_addr *)
(* is an argument of on_status_message (lines 153 and 270).                *)
(***************************************************************************)
InitSource ==
    /\ Init
    /\ kind \in {"min", "preferred"}

\* The inputs of the strategy calls of the specification SpecSource.
SourceInputs ==
    [positions |-> {0}, windows |-> Windows, receiver_ids |-> ReceiverIds,
     sm_tags |-> {[was_present |-> TRUE, tag |-> ConfiguredTag],
                  [was_present |-> TRUE, tag |-> OtherTag]},
     snd_lmts |-> {0}, sm_times |-> SmTimes, idle_times |-> {0, ReceiverTimeout + 1},
     alloc_may_fail |-> TRUE, chained |-> FALSE, recv_addrs |-> {1, 2}]

NextSource ==
    \/ MinOnSm(SourceInputs)
    \/ PreferredOnSm(SourceInputs)
    \/ MinOnIdle(SourceInputs)
    \/ DriverResume

SpecSource == InitSource /\ [][NextSource]_vars

(***************************************************************************)
(* The options parser on its own: every input of ValidOptions is parsed.   *)
(***************************************************************************)
InitParse ==
    /\ kind = "none"
    /\ receivers = <<>>
    /\ capacity = 0
    /\ receiver_timeout_ns = 0
    /\ receiver_tag = 0
    /\ call = NoCall
    /\ options \in ValidOptions \cup RejectedOptions
    /\ parsed = NotParsed
    /\ env = NoEnvironment
    /\ statics = InitialStatics
    /\ supplied = NotSupplied
    /\ history = NoHistory
    /\ threads = NoThreads
    /\ init_once = OnceNotUsed
    /\ emptied = FALSE
    /\ driver = NoDriver
    /\ sources = NoSources

ParseOptions ==
    /\ ~parsed.done
    /\ options.fc # <<>>
    /\ \E r \in {ParsePreferredOptions(Len(options.fc[1]), options.fc[1])} :
          parsed' = [done |-> TRUE, rc |-> r.rc, out |-> r.out]
    /\ UNCHANGED <<kind, receivers, capacity, receiver_timeout_ns, receiver_tag, call,
                   options, env, statics, supplied, history, threads, init_once, emptied, driver, sources>>

NextParse == ParseOptions

SpecParse == InitParse /\ [][NextParse]_vars

(***************************************************************************)
(* A publication from its creation: the strategy is selected from the fc   *)
(* parameter of the channel and built, then the driver calls it. An SM     *)
(* arrives at time 0 and the idle ticks come one and two seconds later.    *)
(***************************************************************************)
InitSupplier ==
    /\ kind = "none"
    /\ receivers = <<>>
    /\ capacity = 0
    /\ receiver_timeout_ns = 0
    /\ receiver_tag = 0
    /\ call = NoCall
    /\ options \in ValidOptions \cup UnknownOptions \cup {NoFc}
    /\ parsed = NotParsed
    /\ env \in Environments
    /\ statics = InitialStatics
    /\ supplied = NotSupplied
    /\ history = NoHistory
    /\ threads = NoThreads
    /\ init_once = OnceNotUsed
    /\ emptied = FALSE
    /\ driver = NoDriver
    /\ sources = NoSources

\* aeron_default_multicast_flow_control_strategy_supplier, lines 150-211, and
\* the supplier it calls.
Supply(alloc_ok) ==
    /\ kind = "none"
    /\ \E p \in {IF options.fc = <<>> THEN [rc |-> 0, out |-> InitialOptions]
                 ELSE ParsePreferredOptions(Len(options.fc[1]), options.fc[1])} :
          /\ parsed' = [done |-> TRUE, rc |-> p.rc, out |-> p.out]
          /\ \E s \in {SelectStrategy(options.fc, p, statics, env, alloc_ok)} :
                /\ kind' = s.kind
                /\ receiver_timeout_ns' = s.receiver_timeout_ns
                /\ receiver_tag' = s.receiver_tag
                /\ statics' = s.statics
                /\ supplied' = [done |-> TRUE, rc |-> s.rc, alloc_ok |-> alloc_ok]
    /\ receivers' = <<>>
    /\ capacity' = 0
    /\ UNCHANGED <<call, options, env, history, threads, init_once, emptied, driver, sources>>

\* The inputs of the strategy calls of the specification SpecSupplier.
SupplierCallInputs ==
    [positions |-> {0}, windows |-> {1}, receiver_ids |-> {1},
     sm_tags |-> {[was_present |-> TRUE, tag |-> 42], [was_present |-> FALSE, tag |-> 42]},
     snd_lmts |-> {0}, sm_times |-> {0},
     idle_times |-> {1000000000, 2000000000}, alloc_may_fail |-> FALSE, chained |-> FALSE,
     recv_addrs |-> {1}]

NextSupplier ==
    \/ \E alloc_ok \in BOOLEAN : Supply(alloc_ok)
    \/ MaxOnSm(SupplierCallInputs)
    \/ MaxOnIdle(SupplierCallInputs)
    \/ MinOnSm(SupplierCallInputs)
    \/ PreferredOnSm(SupplierCallInputs)
    \/ MinOnIdle(SupplierCallInputs)
    \/ DriverResume

SpecSupplier == InitSupplier /\ [][NextSupplier]_vars

(***************************************************************************)
(* Several threads construct min and preferred strategies at the same      *)
(* time. Each thread is at one place of its supplier:                      *)
(*   "alloc"   before the aeron_alloc calls (lines 214-218, 357-361)       *)
(*   "once"    at aeron_thread_once (lines 226, 367-368)                   *)
(*   "getenv"  in the initializer, before getenv (lines 195-201, 326-332)  *)
(*   "store"   in the initializer, before it stores (lines 203, 334)       *)
(*   "return"  the initializer has stored and returns                      *)
(*   "read"    before receiver_timeout_ns is set (lines 234, 378-380)      *)
(*   "done"    the supplier returned 0, "failed" it returned -1.           *)
(* A preferred thread has parsed its fc value before (line 352):           *)
(* uri_timeout_ns is options.timeout_ns.                                   *)
(***************************************************************************)
Constructions ==
    {[pc |-> "alloc", strategy |-> "min", uri_timeout_ns |-> 0,
      timeout_ns |-> 0, receiver_timeout_ns |-> 0],
     [pc |-> "alloc", strategy |-> "preferred", uri_timeout_ns |-> 0,
      timeout_ns |-> 0, receiver_timeout_ns |-> 0],
     [pc |-> "alloc", strategy |-> "preferred", uri_timeout_ns |-> 500000000,
      timeout_ns |-> 0, receiver_timeout_ns |-> 0]}

InitOnce ==
    /\ kind = "none"
    /\ receivers = <<>>
    /\ capacity = 0
    /\ receiver_timeout_ns = 0
    /\ receiver_tag = 0
    /\ call = NoCall
    /\ options = NoFc
    /\ parsed = NotParsed
    /\ env \in Environments
    /\ statics = InitialStatics
    /\ supplied = NotSupplied
    /\ history = NoHistory
    /\ threads \in [ThreadIds -> Constructions]
    /\ init_once = OnceNotUsed
    /\ emptied = FALSE
    /\ driver = NoDriver
    /\ sources = NoSources

\* The environment variable and the control of the strategy a thread constructs.
TimeoutEnv(strategy) ==
    IF strategy = "min" THEN env.min_timeout ELSE env.preferred_timeout

\* Lines 214-218 and 357-361: the two aeron_alloc calls.
ConstructAlloc(t, alloc_ok) ==
    /\ threads[t].pc = "alloc"
    /\ threads' = [threads EXCEPT ![t].pc = IF alloc_ok THEN "once" ELSE "failed"]
    /\ UNCHANGED <<kind, receivers, capacity, receiver_timeout_ns, receiver_tag, call,
                   options, parsed, env, statics, supplied, history, init_once, emptied, driver, sources>>

\* Lines 226 and 367-368, aeron_thread_once: the first caller goes into the
\* initializer; a caller that finds it running waits here.
OnceEnter(t) ==
    /\ threads[t].pc = "once"
    /\ OnceMayRun(init_once[threads[t].strategy])
    /\ init_once' = [init_once EXCEPT ![threads[t].strategy] =
                   [state |-> "running", runs |-> @.runs + 1]]
    /\ threads' = [threads EXCEPT ![t].pc = "getenv"]
    /\ UNCHANGED <<kind, receivers, capacity, receiver_timeout_ns, receiver_tag, call,
                   options, parsed, env, statics, supplied, history, emptied, driver, sources>>

\* Lines 195-201 and 326-332: getenv and the parse of its result.
OnceGetenv(t) ==
    /\ threads[t].pc = "getenv"
    /\ threads' = [threads EXCEPT
                     ![t].pc = "store",
                     ![t].timeout_ns = InitialTimeout(TimeoutEnv(threads[t].strategy))]
    /\ UNCHANGED <<kind, receivers, capacity, receiver_timeout_ns, receiver_tag, call,
                   options, parsed, env, statics, supplied, history, init_once, emptied, driver, sources>>

\* Lines 203 and 334: the initializer stores the default.
OnceStore(t) ==
    /\ threads[t].pc = "store"
    /\ statics' = IF threads[t].strategy = "min"
                  THEN [statics EXCEPT !.aeron_min_flow_control_strategy_timeout_ns =
                                           threads[t].timeout_ns]
                  ELSE [statics EXCEPT !.aeron_preferred_flow_control_strategy_timeout_ns =
                                           threads[t].timeout_ns]
    /\ threads' = [threads EXCEPT ![t].pc = "return"]
    /\ UNCHANGED <<kind, receivers, capacity, receiver_timeout_ns, receiver_tag, call,
                   options, parsed, env, supplied, history, init_once, emptied, driver, sources>>

\* The initializer returns and aeron_thread_once with it: the control is done.
OnceReturn(t) ==
    /\ threads[t].pc = "return"
    /\ init_once' = [init_once EXCEPT ![threads[t].strategy].state = "done"]
    /\ statics' = IF threads[t].strategy = "min"
                  THEN [statics EXCEPT !.min_timeout_is_initialized = TRUE]
                  ELSE [statics EXCEPT !.preferred_timeout_is_initialized = TRUE]
    /\ threads' = [threads EXCEPT ![t].pc = "read"]
    /\ UNCHANGED <<kind, receivers, capacity, receiver_timeout_ns, receiver_tag, call,
                   options, parsed, env, supplied, history, emptied, driver, sources>>

\* aeron_thread_once for a caller that finds the control done.
OncePass(t) ==
    /\ threads[t].pc = "once"
    /\ OnceMayReturn(init_once[threads[t].strategy])
    /\ threads' = [threads EXCEPT ![t].pc = "read"]
    /\ UNCHANGED <<kind, receivers, capacity, receiver_timeout_ns, receiver_tag, call,
                   options, parsed, env, statics, supplied, history, init_once, emptied, driver, sources>>

\* Lines 234 and 378-380: receiver_timeout_ns of the new strategy.
ConstructRead(t) ==
    /\ threads[t].pc = "read"
    /\ threads' = [threads EXCEPT
                     ![t].pc = "done",
                     ![t].receiver_timeout_ns =
                         IF threads[t].strategy = "min"
                         THEN statics.aeron_min_flow_control_strategy_timeout_ns
                         ELSE IF threads[t].uri_timeout_ns # 0
                         THEN threads[t].uri_timeout_ns
                         ELSE statics.aeron_preferred_flow_control_strategy_timeout_ns]
    /\ UNCHANGED <<kind, receivers, capacity, receiver_timeout_ns, receiver_tag, call,
                   options, parsed, env, statics, supplied, history, init_once, emptied, driver, sources>>

NextOnce ==
    \/ \E t \in ThreadIds, alloc_ok \in BOOLEAN : ConstructAlloc(t, alloc_ok)
    \/ \E t \in ThreadIds : OnceEnter(t)
    \/ \E t \in ThreadIds : OnceGetenv(t)
    \/ \E t \in ThreadIds : OnceStore(t)
    \/ \E t \in ThreadIds : OnceReturn(t)
    \/ \E t \in ThreadIds : OncePass(t)
    \/ \E t \in ThreadIds : ConstructRead(t)

SpecOnce == InitOnce /\ [][NextOnce]_vars

(***************************************************************************)
(* What the claims are stated with. None of this is computed by the code.  *)
(***************************************************************************)

Max2(a, b) == IF a >= b THEN a ELSE b

SetMin(S) == CHOOSE m \in S : \A x \in S : m <= x

Records(table) == {table[i] : i \in DOMAIN table}

Edges(table) == {table[i].last_position_plus_window : i \in DOMAIN table}

Tracked(table, receiver_id) == \E i \in DOMAIN table : table[i].receiver_id = receiver_id

\* The record of receiver_id in a table that tracks it.
RecordOf(table, receiver_id) ==
    table[CHOOSE i \in DOMAIN table : table[i].receiver_id = receiver_id]

\* The window edge the SM of the last call reports.
CallEdge == call.position + call.window_length

\* The last call was on_status_message of the preferred strategy with an SM
\* whose tag is absent or differs from the configured one.
NonPreferredSm ==
    /\ kind = "preferred"
    /\ call.op = "on_sm"
    /\ ~(call.sm_receiver_tag.was_present /\ call.sm_receiver_tag.tag = receiver_tag)

\* The records of the table before the last call that an idle tick at
\* call.now_ns has to keep: those not older than the timeout.
Survivors ==
    {r \in Records(call.before) :
        call.now_ns - r.time_of_last_status_message <= receiver_timeout_ns}

(***************************************************************************)
(* C1. Min strategy, on_status_message: when the insert (if one is needed) *)
(* succeeds, the table holds the records of the other receivers as they    *)
(* were and one record of the SM's receiver with edge P + W, and the       *)
(* returned value is max(snd_lmt, m), m the minimum edge of that table.    *)
(***************************************************************************)
C1_MinReduction ==
    (kind = "min" /\ call.op = "on_sm" /\ call.ensure_capacity_result >= 0)
    => LET others == {r \in Records(call.before) : r.receiver_id # call.receiver_id}
           applied == {r.last_position_plus_window : r \in others} \cup {CallEdge}
       IN /\ Tracked(receivers, call.receiver_id)
          /\ RecordOf(receivers, call.receiver_id).last_position_plus_window = CallEdge
          /\ {r \in Records(receivers) : r.receiver_id # call.receiver_id} = others
          /\ call.ret = Max2(call.snd_lmt, SetMin(applied))

\* An SM of a tracked receiver, one of two, shrinks its edge below the other
\* receiver's edge, and the new minimum is above snd_lmt.
C1_Witness ==
    /\ kind = "min" /\ call.op = "on_sm"
    /\ Len(call.before) = 2
    /\ Tracked(call.before, call.receiver_id)
    /\ CallEdge < RecordOf(call.before, call.receiver_id).last_position_plus_window
    /\ CallEdge < SetMin(Edges(call.before))
    /\ call.ret = CallEdge
    /\ call.ret > call.snd_lmt

(***************************************************************************)
(* C2. Preferred strategy with at least one receiver tracked: as claimed,  *)
(* on_status_message for a non-preferred SM returns exactly snd_lmt.       *)
(***************************************************************************)
C2_ReturnsSndLmt ==
    (NonPreferredSm /\ Len(call.before) > 0) => call.ret = call.snd_lmt

(***************************************************************************)
(* C2, amended. Preferred strategy with at least one receiver tracked:     *)
(* on_status_message for a non-preferred SM returns max(snd_lmt, m), m the *)
(* minimum last_position_plus_window of the tracked receivers; the SM's    *)
(* own position and window do not enter the result.                        *)
(***************************************************************************)
C2_ReturnsMaxOfSndLmtAndMin ==
    (NonPreferredSm /\ Len(call.before) > 0)
    => call.ret = Max2(call.snd_lmt, SetMin(Edges(call.before)))

\* A non-preferred SM arrives while every tracked edge is above snd_lmt, and
\* its own edge differs from the value returned.
C2_Witness ==
    /\ NonPreferredSm
    /\ Len(call.before) > 0
    /\ SetMin(Edges(call.before)) > call.snd_lmt
    /\ call.ret > call.snd_lmt
    /\ call.ret # CallEdge

(***************************************************************************)
(* C3. Preferred strategy, bootstrap: with an empty table a non-preferred  *)
(* SM returns max(snd_lmt, P + W) and the table is still empty afterwards. *)
(***************************************************************************)
C3_Bootstrap ==
    (NonPreferredSm /\ Len(call.before) = 0)
    => /\ call.ret = Max2(call.snd_lmt, CallEdge)
       /\ receivers = <<>>

\* The SM carries no tag at all and its edge is above snd_lmt.
C3_Witness ==
    /\ NonPreferredSm
    /\ Len(call.before) = 0
    /\ ~call.sm_receiver_tag.was_present
    /\ CallEdge > call.snd_lmt
    /\ call.ret = CallEdge

(***************************************************************************)
(* C4. on_idle of min and preferred: the table afterwards holds exactly    *)
(* the records that were there before and have                             *)
(* now_ns - time_of_last_status_message <= receiver_timeout_ns, each once  *)
(* and with its fields unchanged.                                          *)
(***************************************************************************)
C4_Eviction ==
    (kind \in {"min", "preferred"} /\ call.op = "on_idle")
    => /\ Records(receivers) = Survivors
       /\ Len(receivers) = Cardinality(Survivors)

\* The first of two records is stale and the last one, exactly at the
\* timeout, survives: the removal copies the last record over the first.
C4_Witness ==
    /\ kind \in {"min", "preferred"} /\ call.op = "on_idle"
    /\ Len(call.before) = 2
    /\ call.now_ns - call.before[1].time_of_last_status_message > receiver_timeout_ns
    /\ call.now_ns - call.before[2].time_of_last_status_message = receiver_timeout_ns
    /\ receivers = <<call.before[2]>>

(***************************************************************************)
(* C5. on_idle of min and preferred returns the minimum                    *)
(* last_position_plus_window of the surviving records alone, also when it  *)
(* is below snd_lmt, and snd_lmt when no record survives.                  *)
(***************************************************************************)
C5_IdleReturn ==
    (kind \in {"min", "preferred"} /\ call.op = "on_idle")
    => call.ret = IF Survivors # {}
                  THEN SetMin({r.last_position_plus_window : r \in Survivors})
                  ELSE call.snd_lmt

\* One record is evicted and one survives; the survivor's edge is below
\* snd_lmt and above the evicted record's edge.
C5_Witness ==
    /\ kind \in {"min", "preferred"} /\ call.op = "on_idle"
    /\ Len(call.before) = 2
    /\ Len(receivers) = 1
    /\ call.ret = receivers[1].last_position_plus_window
    /\ call.ret < call.snd_lmt
    /\ SetMin(Edges(call.before)) < call.ret

(***************************************************************************)
(* What the fields of an fc value mean, read off the fields as written.    *)
(***************************************************************************)
PrefixFields(fields, prefix) == SelectSeq(fields, LAMBDA f : f.prefix = prefix)

LastMeans(fields, prefix, none) ==
    LET s == PrefixFields(fields, prefix)
    IN IF s = <<>> THEN none ELSE s[Len(s)].means

\* The timeout a t: field asks for when there is one and it is not zero, and
\* default otherwise.
UriTimeout(fields, default) ==
    IF LastMeans(fields, "t", 0) # 0 THEN LastMeans(fields, "t", 0) ELSE default

\* What an environment variable of Environments sets a default timeout to.
DefaultTimeout(timeout_str) ==
    IF timeout_str = <<>> THEN AERON_MAX_FLOW_CONTROL_STRATEGY_RECEIVER_TIMEOUT_NS
    ELSE 1000000000

(***************************************************************************)
(* C6. A min strategy built from a channel whose fc value is "min" with a  *)
(* t: field that is present and nonzero uses that duration as              *)
(* receiver_timeout_ns, and the process-wide default only when there is no *)
(* t: field; so with fc = "min,t:1s" a receiver whose last SM was at time  *)
(* 0 is gone from the table after on_idle(now = 2000000000).               *)
(* The supplier of the min strategy never reads the fc value: the strategy *)
(* has the process-wide default, two seconds when the environment sets     *)
(* none, and the receiver of time 0 is still tracked after that on_idle.   *)
(***************************************************************************)
C6_MinTimeoutFromUri ==
    (kind = "min" /\ parsed.done /\ parsed.rc = 0) =>
        /\ receiver_timeout_ns =
               UriTimeout(options.fields,
                          statics.aeron_min_flow_control_strategy_timeout_ns)
        /\ (/\ options.fc = << <<"m", "i", "n", ",", "t", ":", "1", "s">> >>
            /\ call.op = "on_idle"
            /\ call.now_ns = 2000000000
            /\ \A i \in DOMAIN call.before : call.before[i].time_of_last_status_message = 0)
           => receivers = <<>>

\* C6: the strategy of fc = "min,t:1s" has tracked since time 0 a receiver
\* that on_idle(now = 2000000000) has kept.
C6_Witness ==
    /\ kind = "min"
    /\ options.fc = << <<"m", "i", "n", ",", "t", ":", "1", "s">> >>
    /\ env = NoEnvironment
    /\ call.op = "on_idle"
    /\ call.now_ns = 2000000000
    /\ call.before # <<>>
    /\ \A i \in DOMAIN call.before : call.before[i].time_of_last_status_message = 0
    /\ receivers = call.before

(***************************************************************************)
(* C7. For an options string made of a strategy name followed by t: and g: *)
(* fields in any order, each written once at most, the parse succeeds with *)
(* strategy_name the first token, timeout_ns the duration written in the   *)
(* t: field (0 without one), has_receiver_tag true exactly when there is a *)
(* g: field, and receiver_tag the integer written in it.                   *)
(* The value of a field is copied over the value of the field before it    *)
(* without a terminator, so a shorter value is read with the tail of the   *)
(* longer one before it: "min,g:12345,t:1s" is rejected.                   *)
(***************************************************************************)
C7_ParsesValidOptions ==
    (/\ parsed.done
     /\ Len(PrefixFields(options.fields, "t")) <= 1
     /\ Len(PrefixFields(options.fields, "g")) <= 1) =>
        /\ parsed.rc = 0
        /\ ~parsed.out.strategy_name_is_null
        /\ parsed.out.strategy_name = options.name
        /\ parsed.out.timeout_ns = LastMeans(options.fields, "t", 0)
        /\ parsed.out.has_receiver_tag = (PrefixFields(options.fields, "g") # <<>>)
        /\ parsed.out.has_receiver_tag =>
               parsed.out.receiver_tag = LastMeans(options.fields, "g", 0)

\* C7: "min,g:12345,t:1s" has been parsed and rejected.
C7_Witness ==
    /\ parsed.done
    /\ options.fc = << <<"m", "i", "n", ",", "g", ":", "1", "2", "3", "4", "5",
                         ",", "t", ":", "1", "s">> >>
    /\ parsed.rc = -EINVAL
    /\ parsed.out.has_receiver_tag
    /\ parsed.out.receiver_tag = 12345

(***************************************************************************)
(* C8. When a t: or a g: field is written more than once in an fc value,   *)
(* the parse succeeds and timeout_ns and receiver_tag are the values of    *)
(* the last t: and the last g: field, whatever the lengths of the values   *)
(* written before.                                                         *)
(* "min,g:12345,g:7" yields the tag 72345, and "min,t:500ms,t:1s" is       *)
(* rejected.                                                               *)
(***************************************************************************)
C8_LastOccurrenceWins ==
    (/\ parsed.done
     /\ \/ Len(PrefixFields(options.fields, "t")) >= 2
        \/ Len(PrefixFields(options.fields, "g")) >= 2) =>
        /\ parsed.rc = 0
        /\ parsed.out.timeout_ns = LastMeans(options.fields, "t", 0)
        /\ parsed.out.has_receiver_tag = (PrefixFields(options.fields, "g") # <<>>)
        /\ parsed.out.has_receiver_tag =>
               parsed.out.receiver_tag = LastMeans(options.fields, "g", 0)

\* C8: "min,g:12345,g:7" has been parsed, with a tag that neither field wrote.
C8_Witness ==
    /\ parsed.done
    /\ options.fc = << <<"m", "i", "n", ",", "g", ":", "1", "2", "3", "4", "5",
                         ",", "g", ":", "7">> >>
    /\ parsed.rc = 0
    /\ parsed.out.has_receiver_tag
    /\ parsed.out.receiver_tag = 72345

(***************************************************************************)
(* C9. on_status_message of max, min and preferred never returns less than *)
(* the snd_lmt it was given.                                               *)
(***************************************************************************)
C9_NoRegression ==
    call.op = "on_sm" => call.ret >= call.snd_lmt

\* A tracked receiver reports an older position and a smaller window, which
\* takes the minimum edge below snd_lmt; snd_lmt is returned.
C9_Witness ==
    /\ kind \in {"min", "preferred"} /\ call.op = "on_sm"
    /\ Tracked(call.before, call.receiver_id)
    /\ Tracked(receivers, call.receiver_id)
    /\ call.position < RecordOf(call.before, call.receiver_id).last_position
    /\ CallEdge < RecordOf(call.before, call.receiver_id).last_position_plus_window
    /\ RecordOf(receivers, call.receiver_id).last_position_plus_window = CallEdge
    /\ CallEdge < call.snd_lmt
    /\ call.ret = call.snd_lmt

(***************************************************************************)
(* C10. Max strategy: on_status_message returns max(snd_lmt, P + W),       *)
(* on_idle returns snd_lmt, and no call changes the strategy's state, so   *)
(* the result depends on the arguments of the call alone.                  *)
(***************************************************************************)
C10_MaxStateless ==
    kind = "max"
    => /\ call.op = "on_sm" => call.ret = Max2(call.snd_lmt, CallEdge)
       /\ call.op = "on_idle" => call.ret = call.snd_lmt
       /\ receivers = <<>> /\ capacity = 0
       /\ receiver_timeout_ns = ReceiverTimeout /\ receiver_tag = ConfiguredTag

\* An SM below the send limit: the limit is returned, not the window edge.
C10_Witness ==
    /\ kind = "max" /\ call.op = "on_sm"
    /\ CallEdge < call.snd_lmt
    /\ call.ret = call.snd_lmt

(***************************************************************************)
(* C11. The selection from the fc parameter, when the options parse and    *)
(* the allocation of the strategy succeeds: without fc the fallback        *)
(* supplier is called and its result returned; the name "max" gives the    *)
(* max strategy; the name "min" gives the preferred strategy if and only   *)
(* if there is a g: field, and the min strategy otherwise. An empty name   *)
(* and any other name give -1 and no strategy, whether or not an           *)
(* allocation would succeed, and no supplier has run.                      *)
(***************************************************************************)
C11_Selection ==
    (supplied.done /\ (options.fc # <<>> => parsed.rc = 0)) =>
        LET built(k) == IF supplied.alloc_ok
                        THEN kind = k /\ supplied.rc = 0
                        ELSE kind = "failed" /\ supplied.rc = -1
        IN IF options.fc = <<>> THEN built("fallback")
           ELSE IF options.name = <<"m", "a", "x">> THEN built("max")
           ELSE IF options.name = <<"m", "i", "n">>
           THEN IF PrefixFields(options.fields, "g") # <<>>
                THEN built("preferred")
                ELSE built("min")
           ELSE /\ kind = "failed"
                /\ supplied.rc = -1
                /\ statics = InitialStatics

\* The name "minx" followed by a g: field: the options parse, an allocation
\* would succeed, and no strategy is built.
C11_Witness ==
    /\ supplied.done
    /\ supplied.alloc_ok
    /\ parsed.rc = 0
    /\ options.name = <<"m", "i", "n", "x">>
    /\ PrefixFields(options.fields, "g") # <<>>
    /\ kind = "failed"

C13_LastPositionMonotonic ==
    /\ [](\A id \in ReceiverIds :
            (kind \in {"min", "preferred"} /\ Tracked(receivers, id)) =>
                /\ history[id].live
                /\ RecordOf(receivers, id).last_position = history[id].max_position)
    /\ [][\A id \in ReceiverIds :
            (Tracked(receivers, id) /\ Tracked(receivers', id)) =>
                RecordOf(receivers', id).last_position
                    >= RecordOf(receivers, id).last_position]_vars

\* An SM with position 0 is accepted from a receiver tracked with
\* last_position 1, which is still 1 afterwards.
C13_Witness ==
    /\ kind \in {"min", "preferred"}
    /\ call.op = "on_sm"
    /\ call.position = 0
    /\ Tracked(call.before, call.receiver_id)
    /\ RecordOf(call.before, call.receiver_id).last_position = 1
    /\ RecordOf(call.before, call.receiver_id) # RecordOf(receivers, call.receiver_id)
    /\ RecordOf(receivers, call.receiver_id).last_position = 1

(***************************************************************************)
(* C14. Preferred strategy with at least one receiver tracked:             *)
(* on_status_message for a non-preferred SM leaves the receiver table as   *)
(* it was, record by record, also when the receiver_id of the SM is the    *)
(* one of a tracked record.                                                *)
(***************************************************************************)
C14_SteadyStateFrame ==
    (NonPreferredSm /\ Len(call.before) > 0) =>
        receivers = call.before

\* The non-preferred SM has the receiver_id of a tracked record and reports
\* another position, another window edge and a later time than the record.
C14_Witness ==
    /\ NonPreferredSm
    /\ Len(call.before) = 2
    /\ Tracked(call.before, call.receiver_id)
    /\ call.position > RecordOf(call.before, call.receiver_id).last_position
    /\ CallEdge # RecordOf(call.before, call.receiver_id).last_position_plus_window
    /\ call.now_ns > RecordOf(call.before, call.receiver_id).time_of_last_status_message
    /\ receivers = call.before

(***************************************************************************)
(* C15. The parse returns -EINVAL when a token after the first is no t:    *)
(* and no g: field (an empty token, a word, another prefix, "t:" or "g:"   *)
(* without a value), when the value of a field is longer than 63           *)
(* characters, when the integer parser does not consume the whole of a g:  *)
(* value, or when the duration parser rejects a t: value.                  *)
(* The value "-" of a g: field is no integer, but copied over the first    *)
(* byte of a longer value before it, it is read with that value's tail:    *)
(* "min,g:42,g:-" parses with the tag -2. An empty token at the very end,  *)
(* as in "min,t:1s,", is never looked at.                                  *)
(***************************************************************************)
C15_ErrorsRejected ==
    (parsed.done /\ \E i \in DOMAIN options.fields : options.fields[i] \in RejectedFields)
    => parsed.rc = -EINVAL

\* "min,g:42,g:-" has been parsed: success, and the tag is -2.
C15_Witness ==
    /\ parsed.done
    /\ options.fc = << <<"m", "i", "n", ",", "g", ":", "4", "2", ",", "g", ":", "-">> >>
    /\ parsed.rc = 0
    /\ parsed.out.has_receiver_tag
    /\ parsed.out.receiver_tag = -2

(***************************************************************************)
(* C16. Whatever the interleaving of the threads that construct min and    *)
(* preferred strategies, the initializer of each of the two defaults runs  *)
(* at most once, and a strategy that was constructed with the default has  *)
(* the value the initializer stores: the one of the environment variable,  *)
(* or the built-in one.                                                    *)
(***************************************************************************)
C16_InitOnce ==
    /\ init_once.min.runs <= 1
    /\ init_once.preferred.runs <= 1
    /\ \A t \in DOMAIN threads :
          (/\ threads[t].pc = "done"
           /\ (threads[t].strategy = "min" \/ threads[t].uri_timeout_ns = 0)) =>
              threads[t].receiver_timeout_ns =
                  DefaultTimeout(TimeoutEnv(threads[t].strategy))

\* Three min strategies were constructed with the default of the environment
\* variable, and the initializer ran once.
C16_Witness ==
    /\ threads # NoThreads
    /\ env.min_timeout # <<>>
    /\ \A t \in DOMAIN threads :
          /\ threads[t].strategy = "min"
          /\ threads[t].pc = "done"
          /\ threads[t].receiver_timeout_ns = 1000000000
    /\ init_once.min.runs = 1

(***************************************************************************)
(* C17. In every state of a min or a preferred strategy, the table has a   *)
(* record of receiver_id R if and only if an SM of R was accepted (for     *)
(* min every SM whose insert, when one is needed, succeeds; for preferred  *)
(* those that also carry the configured tag) and on_idle has not evicted R *)
(* since the most recent accepted SM of R.                                 *)
(***************************************************************************)
C17_RecordExistence ==
    kind \in {"min", "preferred"} =>
        \A id \in ReceiverIds : Tracked(receivers, id) <=> history[id].live

\* on_idle has evicted receiver 1, whose SM had been accepted, and kept a
\* receiver whose most recent SM is young enough.
C17_Witness ==
    /\ kind \in {"min", "preferred"}
    /\ call.op = "on_idle"
    /\ Tracked(call.before, 1)
    /\ ~Tracked(receivers, 1)
    /\ ~history[1].live
    /\ \E id \in ReceiverIds : Tracked(receivers, id) /\ history[id].live

(***************************************************************************)
(* C18. Preferred strategy: once on_idle has evicted every tracked         *)
(* receiver, and until an SM of a preferred receiver is accepted again,    *)
(* the table is empty and on_status_message for a non-preferred SM returns *)
(* max(snd_lmt, P + W), as before the first preferred receiver was seen.   *)
(***************************************************************************)
C18_BackToBootstrap ==
    (kind = "preferred" /\ emptied) =>
        /\ receivers = <<>>
        /\ NonPreferredSm => call.ret = Max2(call.snd_lmt, CallEdge)

\* After the eviction of the last receivers a non-preferred SM arrives whose
\* window edge is above snd_lmt, and that edge is returned.
C18_Witness ==
    /\ kind = "preferred"
    /\ emptied
    /\ NonPreferredSm
    /\ CallEdge > call.snd_lmt
    /\ call.ret = CallEdge

(***************************************************************************)
(* C19. When an SM of a receiver the table does not track needs an insert  *)
(* and growing the table fails, the table is exactly as before the call    *)
(* and on_status_message returns snd_lmt if the table is empty, otherwise  *)
(* max(snd_lmt, minimum last_position_plus_window of its records); the     *)
(* table stays within its capacity, so the calls after it work on it.      *)
(***************************************************************************)
GrowthFailed ==
    /\ kind \in {"min", "preferred"}
    /\ call.op = "on_sm"
    /\ kind = "preferred" => ~NonPreferredSm
    /\ ~Tracked(call.before, call.receiver_id)
    /\ call.ensure_capacity_result < 0

C19_GrowthFailure ==
    /\ Len(receivers) <= capacity
    /\ GrowthFailed =>
          /\ receivers = call.before
          /\ call.ret = IF call.before = <<>>
                        THEN call.snd_lmt
                        ELSE Max2(call.snd_lmt, SetMin(Edges(call.before)))

\* Growing a full table of two records has failed for the SM of a third
\* receiver, and the minimum edge of the two records, above snd_lmt, is returned.
C19_Witness ==
    /\ GrowthFailed
    /\ Len(call.before) = 2
    /\ call.ret = SetMin(Edges(call.before))
    /\ call.ret > call.snd_lmt
    /\ CallEdge < call.ret

(***************************************************************************)
(* C20. After on_status_message has accepted an SM (position P, window W,  *)
(* time now_ns) of a receiver the table already tracks, the record of that *)
(* receiver has last_position_plus_window = P + W and                      *)
(* time_of_last_status_message = now_ns, whatever it held before: also     *)
(* when P is below its last_position or now_ns below its time.             *)
(***************************************************************************)
AcceptedSmOfTracked ==
    /\ kind \in {"min", "preferred"}
    /\ call.op = "on_sm"
    /\ kind = "preferred" => ~NonPreferredSm
    /\ Tracked(call.before, call.receiver_id)

C20_RecordRefresh ==
    AcceptedSmOfTracked =>
        /\ Tracked(receivers, call.receiver_id)
        /\ RecordOf(receivers, call.receiver_id).last_position_plus_window = CallEdge
        /\ RecordOf(receivers, call.receiver_id).time_of_last_status_message = call.now_ns

\* The SM reports a position below the stored one, a window edge below the
\* stored one and a time before the stored one, and the record takes them.
C20_Witness ==
    /\ AcceptedSmOfTracked
    /\ call.position < RecordOf(call.before, call.receiver_id).last_position
    /\ CallEdge < RecordOf(call.before, call.receiver_id).last_position_plus_window
    /\ call.now_ns < RecordOf(call.before, call.receiver_id).time_of_last_status_message
    /\ RecordOf(receivers, call.receiver_id).last_position_plus_window = CallEdge
    /\ RecordOf(receivers, call.receiver_id).time_of_last_status_message = call.now_ns

(***************************************************************************)
(* C21. Min and preferred strategy, the driver passing as snd_lmt the      *)
(* value the call before returned: the first on_idle made after the set of *)
(* tracked receivers last changed (a receiver registered or evicted)       *)
(* returns a value that is not below the snd_lmt passed to it.             *)
(***************************************************************************)
FirstIdleAfterChange ==
    /\ kind \in {"min", "preferred"}
    /\ call.op = "on_idle"
    /\ driver.first_idle

C21_FirstIdleNotBelowSndLmt ==
    FirstIdleAfterChange => call.ret >= call.snd_lmt

\* C21 as amended: that on_idle returns the minimum window edge of the
\* receivers it leaves, or snd_lmt when it leaves none; the value is not
\* below snd_lmt when it leaves none or when the call before was an on_idle.
C21_FirstIdleReturn ==
    FirstIdleAfterChange =>
        /\ call.ret = IF receivers = <<>> THEN call.snd_lmt ELSE SetMin(Edges(receivers))
        /\ (receivers = <<>> \/ driver.previous_op = "on_idle") => call.ret >= call.snd_lmt

\* An on_idle has evicted one of two receivers and returned the edge of the
\* other; the on_idle after it, the first since that change, is given that
\* edge as snd_lmt and returns it.
C21_Witness ==
    /\ FirstIdleAfterChange
    /\ driver.previous_op = "on_idle"
    /\ Len(receivers) = 1
    /\ call.snd_lmt > 0
    /\ call.ret = call.snd_lmt

(***************************************************************************)
(* C22. receiver_id is the sole key: the table never holds two records of  *)
(* one receiver_id, whatever on_status_message and on_idle calls were made *)
(* (eviction by swap-with-last and registration anew among them), and an   *)
(* accepted SM whose receiver_id is that of an earlier SM from another     *)
(* source address updates the one record of that receiver_id.              *)
(***************************************************************************)
MovedSm ==
    /\ kind \in {"min", "preferred"}
    /\ call.op = "on_sm"
    /\ kind = "preferred" => ~NonPreferredSm
    /\ call.ensure_capacity_result >= 0
    /\ sources[call.receiver_id].moved

C22_ReceiverIdIsKey ==
    /\ \A i, j \in DOMAIN receivers :
          receivers[i].receiver_id = receivers[j].receiver_id => i = j
    /\ MovedSm =>
          /\ Len(receivers) = Len(call.before)
          /\ TrackedIds(receivers) = TrackedIds(call.before)
          /\ RecordOf(receivers, call.receiver_id).last_position_plus_window = CallEdge
          /\ RecordOf(receivers, call.receiver_id).time_of_last_status_message = call.now_ns

\* The record of receiver 1 stands behind that of receiver 2, as it does
\* after its eviction by a swap and a new registration; an SM of receiver 1
\* comes from another address at a later time, and the table still holds
\* the two records.
C22_Witness ==
    /\ MovedSm
    /\ call.receiver_id = 1
    /\ Len(call.before) = 2
    /\ call.before[1].receiver_id = 2
    /\ call.before[2].receiver_id = 1
    /\ call.now_ns > call.before[2].time_of_last_status_message
    /\ Len(receivers) = 2

(***************************************************************************)
(* C23. on_status_message for receiver_id R in the min or the preferred    *)
(* strategy changes at most the record of R, updating it where it stands   *)
(* or appending it at the end of the table: every other record keeps its   *)
(* last_position, last_position_plus_window, time_of_last_status_message   *)
(* and receiver_id, the records keep their order, none is removed, and     *)
(* receiver_timeout_ns is unchanged.                                       *)
(***************************************************************************)
SmFrame(before, after, receiver_id) ==
    /\ Len(after) \in {Len(before), Len(before) + 1}
    /\ \A i \in DOMAIN before :
          /\ after[i].receiver_id = before[i].receiver_id
          /\ before[i].receiver_id # receiver_id => after[i] = before[i]
    /\ Len(after) = Len(before) + 1 =>
          /\ after[Len(after)].receiver_id = receiver_id
          /\ ~Tracked(before, receiver_id)

C23_SmFrame ==
    [][(kind \in {"min", "preferred"} /\ call.op = "none" /\ call'.op = "on_sm") =>
          /\ SmFrame(receivers, receivers', call'.receiver_id)
          /\ receiver_timeout_ns' = receiver_timeout_ns]_vars

\* An SM of receiver 1, the first of two records, with another window and a
\* later time: its record has changed where it stands, the record of
\* receiver 2 behind it is as before.
C23_Witness ==
    /\ kind \in {"min", "preferred"}
    /\ call.op = "on_sm"
    /\ call.receiver_id = 1
    /\ Len(call.before) = 2
    /\ call.before[1].receiver_id = 1
    /\ receivers[1] # call.before[1]
    /\ receivers[1].receiver_id = 1
    /\ receivers[2] = call.before[2]

====
